---- MODULE Spec2Model ----
(***************************************************************************)
(* A model of promptbuilder (src/src/builder.ts): the PromptBuilder class, *)
(* the prompt function returned by build(), and the three exported pure   *)
(* functions escapeXml, objectToXml and replaceTemplateVariables.         *)
(*                                                                         *)
(* A JavaScript string is a sequence of one-character strings.  A         *)
(* JavaScript value is a record [t |-> typeof-like tag, v |-> payload]:   *)
(* an object's payload is the sequence of its own <<key, value>> pairs in *)
(* the order the properties were created.                                  *)
(*                                                                         *)
(* Spec is the builder with its callers: any method may be called on any   *)
(* builder created so far, so chains branch freely; the callers keep the   *)
(* most recently built function and may call it at any later time.         *)
(* SpecEscape, SpecXml and SpecTemplate each apply one of the pure         *)
(* functions to an argument drawn from a bounded set.                      *)
(* SpecWalk runs objectToXml one call at a time on a value of a heap of    *)
(* objects, where arrays and mappings may be shared or reach themselves,   *)
(* with a call stack of bounded capacity.                                  *)
(***************************************************************************)
EXTENDS Naturals, Sequences, FiniteSets

VARIABLES
  builders,   \* the heap of PromptBuilder instances, in creation order
  receiver,   \* receiver[i]: the builder builders[i] was derived from (0: promptBuilder())
  made,       \* made[i]: the call that returned builders[i], [method, args]
  prompt,     \* <<b>>: the caller holds build() of builder b; <<>>: no built function
  lastCall,   \* <<[fn, values, result]>>: the last step invoked the built function
  escArg,     \* argument of escapeXml
  escRet,     \* <<r>> once escapeXml has returned r
  xmlArg,     \* first argument of objectToXml
  xmlMeta,    \* metadata argument: <<>> is undefined, <<n>> is { index: n }
  xmlRet,     \* <<r>> once objectToXml has returned r
  tplPieces,  \* the template, as the pieces it was written from
  tplValues,  \* argument values of replaceTemplateVariables
  tplRet,     \* <<r>> once replaceTemplateVariables has returned r
  objects,    \* the objects of the JavaScript heap; arrays and mappings hold references
  stack,      \* the call stack: the activations of objectToXml, the running one last
  walkRet,    \* <<r>> once the outermost objectToXml has returned r
  thrown      \* TRUE once a RangeError (call stack exhausted) has left objectToXml

vars == <<builders, receiver, made, prompt, lastCall, escArg, escRet,
          xmlArg, xmlMeta, xmlRet, tplPieces, tplValues, tplRet,
          objects, stack, walkRet, thrown>>

builderVars == <<builders, receiver, made, prompt, lastCall>>
escVars == <<escArg, escRet>>
xmlVars == <<xmlArg, xmlMeta, xmlRet>>
tplVars == <<tplPieces, tplValues, tplRet>>
walkVars == <<objects, stack, walkRet, thrown>>

(***************************************************************************)
(* Bounds of the model.                                                    *)
(***************************************************************************)
MaxBuilders == 3
MaxStrLen == 3
MaxNodes == 4
MaxPieces == 3
MaxItems == 2
MaxFields == 3
StackCapacity == 2

(***************************************************************************)
(* Strings.                                                                *)
(***************************************************************************)
RECURSIVE Flatten(_)
Flatten(ss) == IF ss = <<>> THEN <<>> ELSE Head(ss) \o Flatten(Tail(ss))

RECURSIVE StringsUpTo(_, _)
StringsUpTo(alphabet, n) ==
  IF n = 0 THEN {<<>>}
  ELSE LET shorter == StringsUpTo(alphabet, n - 1)
       IN  shorter \cup {Append(s, c) : s \in shorter, c \in alphabet}

Digits == <<"0", "1", "2", "3", "4", "5", "6", "7", "8", "9">>

\* String(n) for a non-negative integer n: its decimal digits.
RECURSIVE NumberToString(_)
NumberToString(n) ==
  IF n < 10 THEN <<Digits[n + 1]>>
  ELSE NumberToString(n \div 10) \o <<Digits[(n % 10) + 1]>>

InstructionsOpen == <<"<", "i", "n", "s", "t", "r", "u", "c", "t", "i", "o", "n", "s", ">">>
InstructionsClose == <<"<", "/", "i", "n", "s", "t", "r", "u", "c", "t", "i", "o", "n", "s", ">">>
ExamplesOpen == <<"\n", "\n", "<", "e", "x", "a", "m", "p", "l", "e", "s", ">">>
ExamplesClose == <<"\n", "<", "/", "e", "x", "a", "m", "p", "l", "e", "s", ">">>
ExampleOpenA == <<"\n", "<", "e", "x", "a", "m", "p", "l", "e", " ", "i", "n", "d", "e", "x", "=", "\"">>
ExampleOpenB == <<"\"", ">", "<", "i", "n", "p", "u", "t", ">">>
ExampleMid == <<"<", "/", "i", "n", "p", "u", "t", ">", "<", "o", "u", "t", "p", "u", "t", ">">>
ExampleClose == <<"<", "/", "o", "u", "t", "p", "u", "t", ">", "<", "/", "e", "x", "a", "m", "p", "l", "e", ">">>
TaskOpen == <<"\n", "\n", "<", "t", "a", "s", "k", ">">>
TaskClose == <<"<", "/", "t", "a", "s", "k", ">">>
IndexAttr == <<" ", "i", "n", "d", "e", "x", "=", "\"">>
NativeA == <<"f", "u", "n", "c", "t", "i", "o", "n", " ">>
NativeB == <<"(", ")", " ", "{", " ", "[", "n", "a", "t", "i", "v", "e", " ", "c", "o", "d", "e", "]", " ", "}">>
UndefinedText == <<"u", "n", "d", "e", "f", "i", "n", "e", "d">>
NullText == <<"n", "u", "l", "l">>
TrueText == <<"t", "r", "u", "e">>
FalseText == <<"f", "a", "l", "s", "e">>

(***************************************************************************)
(* escapeXml: five global replacements applied one after the other.       *)
(***************************************************************************)
\* str.replace(/c/g, by) for a one-character pattern c
RECURSIVE ReplaceAll(_, _, _)
ReplaceAll(str, c, by) ==
  IF str = <<>> THEN <<>>
  ELSE (IF Head(str) = c THEN by ELSE <<Head(str)>>) \o ReplaceAll(Tail(str), c, by)

AmpEntity == <<"&", "a", "m", "p", ";">>
LtEntity == <<"&", "l", "t", ";">>
GtEntity == <<"&", "g", "t", ";">>
QuotEntity == <<"&", "q", "u", "o", "t", ";">>
AposEntity == <<"&", "a", "p", "o", "s", ";">>

\* Mutant: the ampersand is replaced last, after the other four entities exist.
escapeXmlAmpLast(str) ==
  ReplaceAll(
    ReplaceAll(
      ReplaceAll(
        ReplaceAll(
          ReplaceAll(str, "<", LtEntity),
          ">", GtEntity),
        "\"", QuotEntity),
      "'", AposEntity),
    "&", AmpEntity)

escapeXml(str) ==
  ReplaceAll(
    ReplaceAll(
      ReplaceAll(
        ReplaceAll(
          ReplaceAll(str, "&", AmpEntity),
          "<", LtEntity),
        ">", GtEntity),
      "\"", QuotEntity),
    "'", AposEntity)

(***************************************************************************)
(* JavaScript values.                                                      *)
(***************************************************************************)
StringValue(s) == [t |-> "string", v |-> s]
NumberValue(n) == [t |-> "number", v |-> n]
BooleanValue(b) == [t |-> "boolean", v |-> b]
NullValue == [t |-> "null", v |-> <<>>]
UndefinedValue == [t |-> "undefined", v |-> <<>>]
ArrayValue(items) == [t |-> "array", v |-> items]
ObjectValue(props) == [t |-> "object", v |-> props]
\* a built-in method, named by the property it is found under
FunctionValue(name) == [t |-> "function", v |-> name]

\* Properties every object literal inherits from Object.prototype (a part).
ObjectPrototypeKeys ==
  { <<"t", "o", "S", "t", "r", "i", "n", "g">>,
    <<"v", "a", "l", "u", "e", "O", "f">>,
    <<"h", "a", "s", "O", "w", "n", "P", "r", "o", "p", "e", "r", "t", "y">> }

OwnKeys(obj) == {obj.v[i][1] : i \in DOMAIN obj.v}

\* Mutant: an own-property test, obj.hasOwnProperty(key).
HasOwnProperty(key, obj) == key \in OwnKeys(obj)

\* key in obj: own properties and those found on the prototype chain
HasProperty(key, obj) == key \in OwnKeys(obj) \/ key \in ObjectPrototypeKeys

\* obj[key]
GetProperty(obj, key) ==
  IF key \in OwnKeys(obj)
  THEN obj.v[CHOOSE i \in DOMAIN obj.v : obj.v[i][1] = key][2]
  ELSE IF key \in ObjectPrototypeKeys THEN FunctionValue(key)
  ELSE UndefinedValue

\* obj[key] = value: an existing property keeps its place, a new one goes last
SetProperty(obj, key, value) ==
  IF key \in OwnKeys(obj)
  THEN ObjectValue([i \in DOMAIN obj.v |->
         IF obj.v[i][1] = key THEN <<key, value>> ELSE obj.v[i]])
  ELSE ObjectValue(Append(obj.v, <<key, value>>))

DigitValue(c) == CHOOSE d \in 0..9 : Digits[d + 1] = c

IsDigit(c) == \E d \in 0..9 : Digits[d + 1] = c

\* A key that is a canonical array index ("0", "1", "42", not "01", not "")
IsArrayIndex(key) ==
  /\ Len(key) > 0
  /\ \A i \in DOMAIN key : IsDigit(key[i])
  /\ (Len(key) = 1 \/ key[1] # "0")

RECURSIVE ArrayIndexValue(_)
ArrayIndexValue(key) ==
  IF key = <<>> THEN 0
  ELSE 10 * ArrayIndexValue(SubSeq(key, 1, Len(key) - 1)) + DigitValue(key[Len(key)])

RemoveAt(seq, i) == SubSeq(seq, 1, i - 1) \o SubSeq(seq, i + 1, Len(seq))

RECURSIVE SortByIndex(_)
SortByIndex(props) ==
  IF props = <<>> THEN <<>>
  ELSE LET m == CHOOSE i \in DOMAIN props : \A j \in DOMAIN props :
                  ArrayIndexValue(props[i][1]) <= ArrayIndexValue(props[j][1])
       IN  <<props[m]>> \o SortByIndex(RemoveAt(props, m))

IsIndexProp(p) == IsArrayIndex(p[1])

IsNamedProp(p) == ~IsArrayIndex(p[1])

\* Mutant: the properties in the order they were created, whatever their keys.
ObjectEntriesAsCreated(obj) == obj.v

\* Object.entries(obj): array-index keys in ascending numeric order, then the
\* other keys in the order they were created
ObjectEntries(obj) ==
  SortByIndex(SelectSeq(obj.v, IsIndexProp)) \o SelectSeq(obj.v, IsNamedProp)

(***************************************************************************)
(* JSON.stringify and String.                                              *)
(***************************************************************************)
RECURSIVE JoinWith(_, _)
JoinWith(sep, ss) ==
  IF ss = <<>> THEN <<>>
  ELSE IF Len(ss) = 1 THEN ss[1]
  ELSE ss[1] \o sep \o JoinWith(sep, Tail(ss))

\* JSON's string literal: quotes, with " \ and newline escaped
QuoteJSONString(s) ==
  <<"\"">> \o
  Flatten([i \in DOMAIN s |->
    IF s[i] = "\"" THEN <<"\\", "\"">>
    ELSE IF s[i] = "\\" THEN <<"\\", "\\">>
    ELSE IF s[i] = "\n" THEN <<"\\", "n">>
    ELSE <<s[i]>>]) \o
  <<"\"">>

\* values JSON.stringify has no text for
JSONIsUndefined(value) == value.t \in {"undefined", "function"}

IsSerializableProp(p) == ~JSONIsUndefined(p[2])

RECURSIVE JSONText(_)
JSONText(value) ==
  CASE value.t = "string" -> QuoteJSONString(value.v)
    [] value.t = "number" -> NumberToString(value.v)
    [] value.t = "boolean" -> (IF value.v THEN TrueText ELSE FalseText)
    [] value.t = "null" -> NullText
    [] value.t = "array" ->
         <<"[">> \o
         JoinWith(<<",">>, [i \in DOMAIN value.v |->
           IF JSONIsUndefined(value.v[i]) THEN NullText ELSE JSONText(value.v[i])]) \o
         <<"]">>
    [] value.t = "object" ->
         LET entries == SelectSeq(ObjectEntries(value), IsSerializableProp)
         IN  <<"{">> \o
             JoinWith(<<",">>, [i \in DOMAIN entries |->
               QuoteJSONString(entries[i][1]) \o <<":">> \o JSONText(entries[i][2])]) \o
             <<"}">>

\* JSON.stringify(value) as the text it contributes where the code uses it (inside a
\* template literal, and as the result of a replace callback): the result undefined
\* is converted to the text "undefined"
JSONstringify(value) ==
  IF JSONIsUndefined(value) THEN UndefinedText ELSE JSONText(value)

\* String(value) for the values that reach it in objectToXml
StringOf(value) ==
  CASE value.t = "string" -> value.v
    [] value.t = "number" -> NumberToString(value.v)
    [] value.t = "boolean" -> (IF value.v THEN TrueText ELSE FalseText)
    [] value.t = "function" -> NativeA \o value.v \o NativeB

(***************************************************************************)
(* objectToXml                                                             *)
(***************************************************************************)
\* Mutant: the index attribute is never written.
ElementNoIndex(key, metadata, xmlValue) ==
  <<"<">> \o key \o <<">">> \o xmlValue \o <<"<", "/">> \o key \o <<">">>

\* the element written for one entry of a mapping
Element(key, metadata, xmlValue) ==
  <<"<">> \o key \o
  (IF metadata # <<>>
   THEN IndexAttr \o NumberToString(metadata[1]) \o <<"\"">>
   ELSE <<>>) \o
  <<">">> \o xmlValue \o <<"<", "/">> \o key \o <<">">>

RECURSIVE objectToXml(_, _)

\* Mutant: a string is written as it is, unescaped, and null as the text "null".
objectToXmlRaw(obj, metadata) ==
  IF obj.t \in {"string", "number", "boolean"} THEN StringOf(obj)
  ELSE IF obj.t = "array"
  THEN Flatten([i \in DOMAIN obj.v |-> objectToXml(obj.v[i], <<i - 1>>)])
  ELSE IF obj.t = "null" THEN NullText
  ELSE IF obj.t = "undefined" THEN <<>>
  ELSE IF obj.t = "object"
  THEN LET entries == ObjectEntries(obj)
       IN  Flatten([i \in DOMAIN entries |->
             Element(entries[i][1], metadata, objectToXml(entries[i][2], <<>>))])
  ELSE StringOf(obj)

\* Mutant: the metadata of an array item is forwarded to the values of its fields.
objectToXmlForward(obj, metadata) ==
  IF obj.t \in {"string", "number", "boolean"}
  THEN (IF obj.t = "string" THEN escapeXml(StringOf(obj)) ELSE StringOf(obj))
  ELSE IF obj.t = "array"
  THEN Flatten([i \in DOMAIN obj.v |-> objectToXml(obj.v[i], <<i - 1>>)])
  ELSE IF obj.t \in {"null", "undefined"} THEN <<>>
  ELSE IF obj.t = "object"
  THEN LET entries == ObjectEntries(obj)
       IN  Flatten([i \in DOMAIN entries |->
             Element(entries[i][1], metadata, objectToXml(entries[i][2], metadata))])
  ELSE StringOf(obj)

objectToXml(obj, metadata) ==
  IF obj.t \in {"string", "number", "boolean"}
  THEN (IF obj.t = "string" THEN escapeXml(StringOf(obj)) ELSE StringOf(obj))
  ELSE IF obj.t = "array"
  THEN Flatten([i \in DOMAIN obj.v |-> objectToXml(obj.v[i], <<i - 1>>)])
  ELSE IF obj.t \in {"null", "undefined"} THEN <<>>
  ELSE IF obj.t = "object"
  THEN LET entries == ObjectEntries(obj)
       IN  Flatten([i \in DOMAIN entries |->
             Element(entries[i][1], metadata, objectToXml(entries[i][2], <<>>))])
  ELSE StringOf(obj)

(***************************************************************************)
(* replaceTemplateVariables: template.replace(/\{\{(\w+)\}\}/g, callback)   *)
(***************************************************************************)
\* the characters \w matches
WordChars ==
  { "a", "b", "c", "d", "e", "f", "g", "h", "i", "j", "k", "l", "m", "n",
    "o", "p", "q", "r", "s", "t", "u", "v", "w", "x", "y", "z", "A", "B",
    "C", "D", "E", "F", "G", "H", "I", "J", "K", "L", "M", "N", "O", "P",
    "Q", "R", "S", "T", "U", "V", "W", "X", "Y", "Z", "0", "1", "2", "3",
    "4", "5", "6", "7", "8", "9", "_" }

\* the first position from j on that holds no word character
RECURSIVE WordRunEnd(_, _)
WordRunEnd(template, j) ==
  IF j <= Len(template) /\ template[j] \in WordChars
  THEN WordRunEnd(template, j + 1)
  ELSE j

\* the length of the match of \{\{(\w+)\}\} that starts at position i, 0 if none
MatchLength(template, i) ==
  IF i + 1 <= Len(template) /\ template[i] = "{" /\ template[i + 1] = "{"
  THEN LET e == WordRunEnd(template, i + 2)
       IN  IF /\ e > i + 2
              /\ e + 1 <= Len(template)
              /\ template[e] = "}"
              /\ template[e + 1] = "}"
           THEN e + 2 - i
           ELSE 0
  ELSE 0

\* Mutant: the bound value is written with String(), unquoted.
ReplacerString(match, key, values) ==
  IF HasProperty(key, values)
  THEN (IF GetProperty(values, key).t \in {"string", "number", "boolean", "function"}
        THEN StringOf(GetProperty(values, key))
        ELSE JSONstringify(GetProperty(values, key)))
  ELSE match

\* the replace callback
Replacer(match, key, values) ==
  IF HasProperty(key, values)
  THEN JSONstringify(GetProperty(values, key))
  ELSE match

\* the global replace: matches are found left to right in the template, each
\* search resuming after the previous match; inserted text is not searched
RECURSIVE ReplaceFrom(_, _, _)
ReplaceFrom(template, values, i) ==
  IF i > Len(template) THEN <<>>
  ELSE LET n == MatchLength(template, i)
       IN  IF n > 0
           THEN Replacer(SubSeq(template, i, i + n - 1),
                         SubSeq(template, i + 2, i + n - 3), values)
                \o ReplaceFrom(template, values, i + n)
           ELSE <<template[i]>> \o ReplaceFrom(template, values, i + 1)

\* Mutant: the result is searched for placeholders once more.
replaceTemplateVariablesTwice(template, values) ==
  ReplaceFrom(ReplaceFrom(template, values, 1), values, 1)

replaceTemplateVariables(template, values) == ReplaceFrom(template, values, 1)

(***************************************************************************)
(* class PromptBuilder.  The heap is the sequence of the instances created *)
(* so far; a method takes the heap and the receiver's place in it and      *)
(* returns the heap after the call, the returned instance last.            *)
(***************************************************************************)
\* new PromptBuilder(): the field initialisers
NewPromptBuilder == [_instruction |-> <<>>, _examples |-> <<>>, _taskKeys |-> <<>>]

promptBuilder(heap) == Append(heap, NewPromptBuilder)

\* Mutant: the receiver's instruction is assigned as well ("return this" style).
instructionInPlace(heap, this, template) ==
  Append([heap EXCEPT ![this]._instruction = template],
         [_instruction |-> template,
          _examples |-> heap[this]._examples,
          _taskKeys |-> heap[this]._taskKeys])

\* Mutant: the new builder starts from the field initialisers, keeping only
\* the template.
instructionFresh(heap, this, template) ==
  Append(heap, [NewPromptBuilder EXCEPT !._instruction = template])

instruction(heap, this, template) ==
  Append(heap,
         [_instruction |-> template,
          _examples |-> heap[this]._examples,
          _taskKeys |-> heap[this]._taskKeys])

example(heap, this, input, output) ==
  Append(heap,
         [_instruction |-> heap[this]._instruction,
          _examples |-> Append(heap[this]._examples,
                               [input |-> input, output |-> output]),
          _taskKeys |-> heap[this]._taskKeys])

\* Mutant: the receiver's array is shared and pushed to, not copied.
taskKeyShared(heap, this, key) ==
  Append([heap EXCEPT ![this]._taskKeys = Append(heap[this]._taskKeys, key)],
         [_instruction |-> heap[this]._instruction,
          _examples |-> heap[this]._examples,
          _taskKeys |-> Append(heap[this]._taskKeys, key)])

taskKey(heap, this, key) ==
  Append(heap,
         [_instruction |-> heap[this]._instruction,
          _examples |-> heap[this]._examples,
          _taskKeys |-> Append(heap[this]._taskKeys, key)])

(***************************************************************************)
(* The function build() returns.  It closes over the builder itself and    *)
(* reads its fields when it is called.                                     *)
(***************************************************************************)
\* Mutant: the output is serialized to markup like the input.
ExampleXmlBothMarkup(ex, index) ==
  ExampleOpenA \o NumberToString(index) \o ExampleOpenB \o
  objectToXml(ex.input, <<>>) \o ExampleMid \o
  objectToXml(ex.output, <<>>) \o ExampleClose

\* one example of the examples section, index counted from 0
ExampleXml(ex, index) ==
  ExampleOpenA \o NumberToString(index) \o ExampleOpenB \o
  objectToXml(ex.input, <<>>) \o ExampleMid \o
  JSONstringify(ex.output) \o ExampleClose

ExamplesSection(examples) ==
  IF Len(examples) > 0
  THEN ExamplesOpen \o
       Flatten([i \in DOMAIN examples |-> ExampleXml(examples[i], i - 1)]) \o
       ExamplesClose
  ELSE <<>>

\* the reduce over the task keys, from the accumulator acc on
RECURSIVE TaskObjectFrom(_, _, _)
TaskObjectFrom(acc, taskKeys, values) ==
  IF taskKeys = <<>> THEN acc
  ELSE TaskObjectFrom(
         IF HasProperty(Head(taskKeys), values)
         THEN SetProperty(acc, Head(taskKeys), GetProperty(values, Head(taskKeys)))
         ELSE acc,
         Tail(taskKeys), values)

TaskObject(taskKeys, values) == TaskObjectFrom(ObjectValue(<<>>), taskKeys, values)

\* Mutant: the task section is written whether or not a task key was declared.
TaskSectionAlways(taskKeys, values) ==
  TaskOpen \o objectToXml(TaskObject(taskKeys, values), <<>>) \o TaskClose

TaskSection(taskKeys, values) ==
  IF Len(taskKeys) > 0
  THEN TaskOpen \o objectToXml(TaskObject(taskKeys, values), <<>>) \o TaskClose
  ELSE <<>>

PromptFunction(this, values) ==
  InstructionsOpen \o replaceTemplateVariables(this._instruction, values) \o
  InstructionsClose \o
  ExamplesSection(this._examples) \o
  TaskSection(this._taskKeys, values)

(***************************************************************************)
(* The inputs the operations are called with.                              *)
(***************************************************************************)
KeyA == <<"a">>
KeyB == <<"b">>
KeyF == <<"f">>
KeyOne == <<"1">>
KeyTwo == <<"2">>
KeyTen == <<"1", "0">>
KeyToString == <<"t", "o", "S", "t", "r", "i", "n", "g">>

Token(identifier) == <<"{", "{">> \o identifier \o <<"}", "}">>

EmptyObject == ObjectValue(<<>>)

\* instruction(): "{{a}}!"
InstructionTemplates == { Token(KeyA) \o <<"!">> }

\* example(): ({ f: "<" }, { f: 4 }) and ([{ f: null }], "<")
ExamplePairs ==
  { [input |-> ObjectValue(<< <<KeyF, StringValue(<<"<">>)>> >>),
     output |-> ObjectValue(<< <<KeyF, NumberValue(4)>> >>)],
    [input |-> ArrayValue(<< ObjectValue(<< <<KeyF, NullValue>> >>) >>),
     output |-> StringValue(<<"<">>)] }

\* taskKey(): "a", "1", "toString"
TaskKeyNames == { KeyA, KeyOne, KeyToString }

\* the value bags a built function is called with:
\* {}, { a: { "1": "<" } }, { a: 7, "1": true } and { "1": true, a: 7 }
PromptValues ==
  { EmptyObject,
    ObjectValue(<< <<KeyA, ObjectValue(<< <<KeyOne, StringValue(<<"<">>)>> >>)>> >>),
    ObjectValue(<< <<KeyA, NumberValue(7)>>, <<KeyOne, BooleanValue(TRUE)>> >>),
    ObjectValue(<< <<KeyOne, BooleanValue(TRUE)>>, <<KeyA, NumberValue(7)>> >>) }

\* escapeXml(): every string of at most MaxStrLen of these characters
EscapeAlphabet == {"&", "<", ">", "\"", "'", "a", ";"}

EscapeStrings == StringsUpTo(EscapeAlphabet, MaxStrLen)

\* objectToXml(): the leaves of the values it is called with
XmlLeaves ==
  { StringValue(<<"<", "&">>), NumberValue(42), BooleanValue(FALSE),
    NullValue, UndefinedValue, ArrayValue(<<>>), EmptyObject }

XmlKeys == { KeyF, KeyOne }

\* every value of exactly n nodes built from the leaves, arrays of at most two
\* items and mappings of at most two of the keys f and "1"
RECURSIVE ValuesOfSize(_)
ValuesOfSize(n) ==
  IF n = 1 THEN XmlLeaves
  ELSE LET one == ValuesOfSize(n - 1)
           two == UNION { ValuesOfSize(i) \X ValuesOfSize(n - 1 - i) : i \in 1..(n - 2) }
       IN  {ArrayValue(<<x>>) : x \in one}
           \cup {ArrayValue(<<p[1], p[2]>>) : p \in two}
           \cup {ObjectValue(<< <<k, x>> >>) : k \in XmlKeys, x \in one}
           \cup {ObjectValue(<< <<ks[1], p[1]>>, <<ks[2], p[2]>> >>) :
                   ks \in {q \in XmlKeys \X XmlKeys : q[1] # q[2]}, p \in two}

SmallValues == UNION { ValuesOfSize(n) : n \in 1..MaxNodes }

\* every array of at most MaxItems mappings { f: leaf }
RecordArrays ==
  UNION { { ArrayValue([i \in 1..k |-> ObjectValue(<< <<KeyF, leaves[i]>> >>)]) :
              leaves \in [1..k -> XmlLeaves] } : k \in 1..MaxItems }

OrderKeys == { KeyF, KeyOne, KeyTwo, KeyTen }

\* every mapping of at most MaxFields of the keys f, "1", "2", "10", in every
\* order of creation, each key bound to its place in that order
FlatMappings ==
  UNION { { ObjectValue([i \in 1..n |-> <<ks[i], NumberValue(i)>>]) :
              ks \in { q \in [1..n -> OrderKeys] :
                         \A i, j \in 1..n : i # j => q[i] # q[j] } } :
          n \in 1..MaxFields }

\* objectToXml(): the values it is called with
XmlValues == SmallValues \cup RecordArrays \cup FlatMappings

\* objectToXml(): no metadata, or { index: 5 }
XmlMetadata == { <<>>, <<5>> }

\* replaceTemplateVariables(): a template is written from at most MaxPieces of
\* these pieces: three placeholders and four single characters
TemplatePieces ==
  { Token(KeyA), Token(KeyB), Token(KeyToString), <<"x">>, <<"{">>, <<"}">>, <<" ">> }

RECURSIVE PieceSeqsUpTo(_)
PieceSeqsUpTo(n) ==
  IF n = 0 THEN {<<>>}
  ELSE LET shorter == PieceSeqsUpTo(n - 1)
       IN  shorter \cup {Append(s, c) : s \in shorter, c \in TemplatePieces}

\* replaceTemplateVariables(): {}, { a: "{{b}}" }, { a: "{{b}}", b: [7, "<\""] }
\* and { toString: true, b: { a: null } }
TemplateValues ==
  { EmptyObject,
    ObjectValue(<< <<KeyA, StringValue(Token(KeyB))>> >>),
    ObjectValue(<< <<KeyA, StringValue(Token(KeyB))>>,
                   <<KeyB, ArrayValue(<< NumberValue(7), StringValue(<<"<", "\"">>) >>)>> >>),
    ObjectValue(<< <<KeyToString, BooleanValue(TRUE)>>,
                   <<KeyB, ObjectValue(<< <<KeyA, NullValue>> >>)>> >>) }

(***************************************************************************)
(* The builder and its prompt functions.                                   *)
(***************************************************************************)
BuilderIdle ==
  /\ builders = <<>>
  /\ receiver = <<>>
  /\ made = <<>>
  /\ prompt = <<>>
  /\ lastCall = <<>>

EscIdle == escArg = <<>> /\ escRet = <<>>

XmlIdle == xmlArg = NullValue /\ xmlMeta = <<>> /\ xmlRet = <<>>

TplIdle == tplPieces = <<>> /\ tplValues = EmptyObject /\ tplRet = <<>>

WalkIdle == objects = <<>> /\ stack = <<>> /\ walkRet = <<>> /\ thrown = FALSE

Init == BuilderIdle /\ EscIdle /\ XmlIdle /\ TplIdle /\ WalkIdle

CallPromptBuilder ==
  /\ Len(builders) < MaxBuilders
  /\ builders' = promptBuilder(builders)
  /\ receiver' = Append(receiver, 0)
  /\ made' = Append(made, [method |-> "promptBuilder", args |-> <<>>])
  /\ lastCall' = <<>>
  /\ UNCHANGED <<prompt, escVars, xmlVars, tplVars, walkVars>>

CallInstruction ==
  \E this \in DOMAIN builders, template \in InstructionTemplates :
    /\ Len(builders) < MaxBuilders
    /\ builders' = instruction(builders, this, template)
    /\ receiver' = Append(receiver, this)
    /\ made' = Append(made, [method |-> "instruction", args |-> <<template>>])
    /\ lastCall' = <<>>
    /\ UNCHANGED <<prompt, escVars, xmlVars, tplVars, walkVars>>

CallExample ==
  \E this \in DOMAIN builders, ex \in ExamplePairs :
    /\ Len(builders) < MaxBuilders
    /\ builders' = example(builders, this, ex.input, ex.output)
    /\ receiver' = Append(receiver, this)
    /\ made' = Append(made, [method |-> "example", args |-> <<ex.input, ex.output>>])
    /\ lastCall' = <<>>
    /\ UNCHANGED <<prompt, escVars, xmlVars, tplVars, walkVars>>

CallTaskKey ==
  \E this \in DOMAIN builders, key \in TaskKeyNames :
    /\ Len(builders) < MaxBuilders
    /\ builders' = taskKey(builders, this, key)
    /\ receiver' = Append(receiver, this)
    /\ made' = Append(made, [method |-> "taskKey", args |-> <<key>>])
    /\ lastCall' = <<>>
    /\ UNCHANGED <<prompt, escVars, xmlVars, tplVars, walkVars>>

\* build(): the caller keeps the function, and drops the one held before
CallBuild ==
  \E this \in DOMAIN builders :
    /\ prompt' = <<this>>
    /\ lastCall' = <<>>
    /\ UNCHANGED <<builders, receiver, made, escVars, xmlVars, tplVars, walkVars>>

\* a call of the built function
CallPrompt ==
  \E values \in PromptValues :
    /\ prompt # <<>>
    /\ lastCall' = << [fn |-> prompt[1], values |-> values,
                       result |-> PromptFunction(builders[prompt[1]], values)] >>
    /\ UNCHANGED <<builders, receiver, made, prompt, escVars, xmlVars, tplVars, walkVars>>

Next ==
  \/ CallPromptBuilder
  \/ CallInstruction
  \/ CallExample
  \/ CallTaskKey
  \/ CallBuild
  \/ CallPrompt

Spec == Init /\ [][Next]_vars

(***************************************************************************)
(* escapeXml applied to one string.                                        *)
(***************************************************************************)
InitEscape ==
  /\ BuilderIdle /\ XmlIdle /\ TplIdle /\ WalkIdle
  /\ escArg \in EscapeStrings
  /\ escRet = <<>>

CallEscapeXml ==
  /\ escRet = <<>>
  /\ escRet' = <<escapeXml(escArg)>>
  /\ UNCHANGED <<escArg, builderVars, xmlVars, tplVars, walkVars>>

NextEscape == CallEscapeXml

SpecEscape == InitEscape /\ [][NextEscape]_vars

(***************************************************************************)
(* objectToXml applied to one value.                                       *)
(***************************************************************************)
InitXml ==
  /\ BuilderIdle /\ EscIdle /\ TplIdle /\ WalkIdle
  /\ xmlArg \in XmlValues
  /\ xmlMeta \in XmlMetadata
  /\ xmlRet = <<>>

CallObjectToXml ==
  /\ xmlRet = <<>>
  /\ xmlRet' = <<objectToXml(xmlArg, xmlMeta)>>
  /\ UNCHANGED <<xmlArg, xmlMeta, builderVars, escVars, tplVars, walkVars>>

NextXml == CallObjectToXml

SpecXml == InitXml /\ [][NextXml]_vars

(***************************************************************************)
(* replaceTemplateVariables applied to one template and one value bag.     *)
(***************************************************************************)
InitTemplate ==
  /\ BuilderIdle /\ EscIdle /\ XmlIdle /\ WalkIdle
  /\ tplPieces \in PieceSeqsUpTo(MaxPieces)
  /\ tplValues \in TemplateValues
  /\ tplRet = <<>>

CallReplaceTemplateVariables ==
  /\ tplRet = <<>>
  /\ tplRet' = <<replaceTemplateVariables(Flatten(tplPieces), tplValues)>>
  /\ UNCHANGED <<tplPieces, tplValues, builderVars, escVars, xmlVars, walkVars>>

NextTemplate == CallReplaceTemplateVariables

SpecTemplate == InitTemplate /\ [][NextTemplate]_vars

(***************************************************************************)
(* objectToXml run call by call on a value of the JavaScript heap.  Arrays *)
(* and mappings hold references to objects, so a value may be shared and   *)
(* may reach itself.  Each call of objectToXml is one activation on the    *)
(* call stack; the engine's stack holds StackCapacity activations, and a   *)
(* call made on a full stack throws a RangeError that nothing catches.     *)
(***************************************************************************)
HeapSize == StackCapacity + 1

Refs == 1..HeapSize

HeapLeaves == { StringValue(<<"<">>), NullValue }

HeapKeys == <<KeyF>>

RefSeqs(n) == UNION { [1..k -> Refs] : k \in 0..n }

\* an object of the heap: a leaf, an array of references, or a mapping whose
\* properties hold references
HeapObjects ==
  HeapLeaves
    \cup { ArrayValue(rs) : rs \in RefSeqs(MaxItems) }
    \cup { ObjectValue([i \in DOMAIN rs |-> <<HeapKeys[i], rs[i]>>]) :
             rs \in RefSeqs(Len(HeapKeys)) }

\* the entries the map callback is called with: <<index, item>> of an array,
\* <<key, value>> of Object.entries of a mapping
Entries(obj) ==
  IF obj.t = "array" THEN [i \in DOMAIN obj.v |-> <<i - 1, obj.v[i]>>]
  ELSE IF obj.t = "object" THEN ObjectEntries(obj)
  ELSE <<>>

\* a fresh activation of objectToXml(obj, metadata)
Activation(ref, metadata) ==
  [obj |-> ref, metadata |-> metadata, next |-> 1, acc |-> <<>>]

Running == stack[Len(stack)]

\* the running activation has another entry to map
HasNextEntry == Running.next <= Len(Entries(objects[Running.obj]))

\* the string an activation returns once its entries are mapped
Result(a) ==
  IF objects[a.obj].t \in {"array", "object"} THEN a.acc
  ELSE objectToXml(objects[a.obj], a.metadata)

\* the activation a after its nested call has returned xmlValue
Resume(a, xmlValue) ==
  LET entry == Entries(objects[a.obj])[a.next]
  IN  [a EXCEPT !.next = @ + 1,
                !.acc = @ \o (IF objects[a.obj].t = "array" THEN xmlValue
                              ELSE Element(entry[1], a.metadata, xmlValue))]

InitWalk == BuilderIdle /\ EscIdle /\ XmlIdle /\ TplIdle /\ WalkIdle

\* the caller builds the value, one object at a time; arrays and mappings are
\* mutable, so an object may come to refer to itself or to a later object
BuildObject ==
  /\ Len(objects) < HeapSize
  /\ \E obj \in HeapObjects : objects' = Append(objects, obj)
  /\ UNCHANGED <<stack, walkRet, thrown, builderVars, escVars, xmlVars, tplVars>>

\* the caller calls objectToXml(value), the value being object 1
CallObjectToXmlOnHeap ==
  /\ Len(objects) = HeapSize
  /\ stack = <<>> /\ walkRet = <<>> /\ ~thrown
  /\ stack' = <<Activation(1, <<>>)>>
  /\ UNCHANGED <<objects, walkRet, thrown, builderVars, escVars, xmlVars, tplVars>>

\* the map callback calls objectToXml on the next item or property value
CallNested ==
  /\ stack # <<>>
  /\ HasNextEntry
  /\ Len(stack) < StackCapacity
  /\ LET entry == Entries(objects[Running.obj])[Running.next]
     IN  stack' = Append(stack,
                         Activation(entry[2],
                                    IF objects[Running.obj].t = "array"
                                    THEN <<entry[1]>> ELSE <<>>))
  /\ UNCHANGED <<objects, walkRet, thrown, builderVars, escVars, xmlVars, tplVars>>

\* the same call on a full stack: RangeError, and the whole stack unwinds
ThrowRangeError ==
  /\ stack # <<>>
  /\ HasNextEntry
  /\ Len(stack) >= StackCapacity
  /\ thrown' = TRUE
  /\ stack' = <<>>
  /\ UNCHANGED <<objects, walkRet, builderVars, escVars, xmlVars, tplVars>>

\* the running activation returns its string, to its caller's map callback
\* or, outermost, to the caller of objectToXml
ReturnString ==
  /\ stack # <<>>
  /\ ~HasNextEntry
  /\ IF Len(stack) = 1
     THEN /\ walkRet' = <<Result(Running)>>
          /\ stack' = <<>>
     ELSE /\ stack' = [SubSeq(stack, 1, Len(stack) - 1) EXCEPT
                         ![Len(stack) - 1] = Resume(@, Result(Running))]
          /\ UNCHANGED walkRet
  /\ UNCHANGED <<objects, thrown, builderVars, escVars, xmlVars, tplVars>>

NextWalk ==
  \/ BuildObject
  \/ CallObjectToXmlOnHeap
  \/ CallNested
  \/ ThrowRangeError
  \/ ReturnString

\* JavaScript runs a call to completion: a step that can be taken is taken
SpecWalk == InitWalk /\ [][NextWalk]_vars /\ WF_vars(NextWalk)

(***************************************************************************)
(* Reading a produced text back: the opening tags of a markup text, and    *)
(* the place of a text inside another.  Used to state the properties.      *)
(***************************************************************************)
\* the first position from i on whose character is in stops (Len + 1 if none)
RECURSIVE FindChar(_, _, _)
FindChar(text, i, stops) ==
  IF i > Len(text) \/ text[i] \in stops THEN i
  ELSE FindChar(text, i + 1, stops)

\* the opening tags of text from position i on, in order, each with its name, the
\* digits of its index attribute (<<>> if it has none) and its nesting depth
RECURSIVE OpenTagsFrom(_, _, _)
OpenTagsFrom(text, i, depth) ==
  IF i > Len(text) THEN <<>>
  ELSE IF text[i] # "<" THEN OpenTagsFrom(text, i + 1, depth)
  ELSE LET close == FindChar(text, i, {">"})
           nameEnd == FindChar(text, i, {" ", ">"})
       IN  IF i < Len(text) /\ text[i + 1] = "/"
           THEN OpenTagsFrom(text, close + 1, depth - 1)
           ELSE << [name |-> SubSeq(text, i + 1, nameEnd - 1),
                    index |-> IF nameEnd < close
                              THEN SubSeq(text, nameEnd + Len(IndexAttr), close - 2)
                              ELSE <<>>,
                    depth |-> depth] >>
                \o OpenTagsFrom(text, close + 1, depth + 1)

OpenTags(text) == OpenTagsFrom(text, 1, 0)

IsTopLevel(tag) == tag.depth = 0

\* the names of the outermost elements of text, in order
TopLevelNames(text) ==
  LET tags == SelectSeq(OpenTags(text), IsTopLevel)
  IN  [i \in DOMAIN tags |-> tags[i].name]

\* the first position at which pattern occurs in text, 0 if nowhere
IndexOf(text, pattern) ==
  LET places == {i \in 1..(Len(text) + 1 - Len(pattern)) :
                   SubSeq(text, i, i + Len(pattern) - 1) = pattern}
  IN  IF places = {} THEN 0
      ELSE CHOOSE i \in places : \A j \in places : i <= j

Range(seq) == {seq[i] : i \in DOMAIN seq}

\* the place of the first occurrence of x in seq
FirstIndex(seq, x) == CHOOSE i \in DOMAIN seq : seq[i] = x /\ \A j \in 1..(i - 1) : seq[j] # x

Called == lastCall # <<>>

\* the builder the called function closes over
CalledBuilder == builders[lastCall[1].fn]

Separator == <<"\n", "\n">>
ExamplesTagOpen == <<"<", "e", "x", "a", "m", "p", "l", "e", "s", ">">>
ExamplesTagClose == <<"<", "/", "e", "x", "a", "m", "p", "l", "e", "s", ">">>
TaskTagOpen == <<"<", "t", "a", "s", "k", ">">>

\* the text of the task section of a result, between <task> and </task>
TaskBody(result) ==
  SubSeq(result, IndexOf(result, TaskTagOpen) + Len(TaskTagOpen),
         Len(result) - Len(TaskClose))

C2_Instructions(this, values) ==
  InstructionsOpen \o replaceTemplateVariables(this._instruction, values) \o
  InstructionsClose

C2_Examples(this) ==
  ExamplesTagOpen \o
  Flatten([i \in DOMAIN this._examples |-> ExampleXml(this._examples[i], i - 1)]) \o
  ExamplesClose

C2_Task(this, values) ==
  TaskTagOpen \o objectToXml(TaskObject(this._taskKeys, values), <<>>) \o TaskClose

\* C2: the output of a built function is the instructions section, then "\n\n" and
\* the examples section exactly when an example was added, then "\n\n" and the task
\* section exactly when a task key was declared, and nothing else.
C2_SectionsAndSeparators ==
  Called =>
    lastCall[1].result =
      C2_Instructions(CalledBuilder, lastCall[1].values)
      \o (IF Len(CalledBuilder._examples) >= 1
          THEN Separator \o C2_Examples(CalledBuilder) ELSE <<>>)
      \o (IF Len(CalledBuilder._taskKeys) >= 1
          THEN Separator \o C2_Task(CalledBuilder, lastCall[1].values) ELSE <<>>)

\* a call of a function built with an example and a task key
C2_Witness ==
  /\ Called
  /\ Len(CalledBuilder._examples) >= 1
  /\ Len(CalledBuilder._taskKeys) >= 1

\* a call of a function built with neither
C2_WitnessBare ==
  /\ Called
  /\ Len(CalledBuilder._examples) = 0
  /\ Len(CalledBuilder._taskKeys) = 0

(***************************************************************************)
(* C3.  A placeholder whose identifier the bag lacks.                      *)
(***************************************************************************)
IsToken(piece) ==
  /\ Len(piece) >= 5
  /\ SubSeq(piece, 1, 2) = <<"{", "{">>
  /\ SubSeq(piece, Len(piece) - 1, Len(piece)) = <<"}", "}">>

TokenIdentifier(piece) == SubSeq(piece, 3, Len(piece) - 2)

Replaced == tplRet # <<>>

\* C3: when the value bag has none of the identifiers of the template's
\* placeholders as a key, replaceTemplateVariables returns the template as it is.
C3_MissingKeyKeepsPlaceholder ==
  (/\ Replaced
   /\ \A i \in DOMAIN tplPieces :
        IsToken(tplPieces[i]) => TokenIdentifier(tplPieces[i]) \notin OwnKeys(tplValues))
  => tplRet[1] = Flatten(tplPieces)

(***************************************************************************)
(* C4.  Which declared task keys get an element.                           *)
(***************************************************************************)
\* C4: the outermost elements of the task section are those of the declared task
\* keys that are keys of the value bag: none for a declared key the bag lacks.
C4_ElementIffKeyInBag ==
  (Called /\ Len(CalledBuilder._taskKeys) >= 1) =>
    Range(TopLevelNames(TaskBody(lastCall[1].result))) =
      {k \in Range(CalledBuilder._taskKeys) : k \in OwnKeys(lastCall[1].values)}

(***************************************************************************)
(* C5.  The order of the elements of the task section.                     *)
(***************************************************************************)
\* C5: the outermost elements of the task section come in the order in which
\* their keys were (first) declared with taskKey.
C5_DeclaredOrder ==
  (Called /\ Len(CalledBuilder._taskKeys) >= 1) =>
    LET names == TopLevelNames(TaskBody(lastCall[1].result))
    IN  \A i, j \in DOMAIN names :
          i < j => FirstIndex(CalledBuilder._taskKeys, names[i])
                   < FirstIndex(CalledBuilder._taskKeys, names[j])

(***************************************************************************)
(* C6.  Where objectToXml writes the index attribute.                      *)
(***************************************************************************)
\* the opening tags the rule of C6 asks for, in document order: owner is <<n>>
\* when the value is the immediate item n of an array (or the call was given index
\* n), <<>> otherwise
RECURSIVE ExpectedTags(_, _)
ExpectedTags(value, owner) ==
  IF value.t = "array"
  THEN Flatten([i \in DOMAIN value.v |-> ExpectedTags(value.v[i], <<i - 1>>)])
  ELSE IF value.t = "object"
  THEN LET entries == ObjectEntries(value)
       IN  Flatten([i \in DOMAIN entries |->
             << [name |-> entries[i][1],
                 index |-> IF owner = <<>> THEN <<>> ELSE NumberToString(owner[1])] >>
             \o ExpectedTags(entries[i][2], <<>>)])
  ELSE <<>>

Serialized == xmlRet # <<>>

\* C6: in the output of objectToXml the opening tag of a mapping's key carries
\* index="N" exactly when that mapping is the immediate item N of an array, or is
\* the argument of a call given index N; every other opening tag has no index.
C6_IndexOnImmediateItemsOnly ==
  Serialized =>
    LET tags == OpenTags(xmlRet[1])
    IN  [i \in DOMAIN tags |-> [name |-> tags[i].name, index |-> tags[i].index]]
        = ExpectedTags(xmlArg, xmlMeta)

IsMappingWithF(value) == value.t = "object" /\ KeyF \in OwnKeys(value)

\* an array of two mappings with field f has been serialized: <f index="0">, then
\* <f index="1">
C6_Witness ==
  /\ Serialized
  /\ xmlMeta = <<>>
  /\ xmlArg.t = "array"
  /\ Len(xmlArg.v) = 2
  /\ \A i \in DOMAIN xmlArg.v : IsMappingWithF(xmlArg.v[i])
  /\ LET tags == OpenTags(xmlRet[1])
     IN  /\ Len(tags) = 2
         /\ tags[1] = [name |-> KeyF, index |-> <<"0">>, depth |-> 0]
         /\ tags[2] = [name |-> KeyF, index |-> <<"1">>, depth |-> 0]

\* an array item with field f whose value is itself a mapping: the outer f is
\* indexed, the inner key is not
C6_WitnessNested ==
  /\ Serialized
  /\ xmlMeta = <<>>
  /\ xmlArg.t = "array"
  /\ Len(xmlArg.v) >= 1
  /\ IsMappingWithF(xmlArg.v[1])
  /\ GetProperty(xmlArg.v[1], KeyF).t = "object"
  /\ GetProperty(xmlArg.v[1], KeyF).v # <<>>
  /\ \E i, j \in DOMAIN OpenTags(xmlRet[1]) :
       /\ OpenTags(xmlRet[1])[i].index = <<"0">>
       /\ OpenTags(xmlRet[1])[j].index = <<>>

(***************************************************************************)
(* C7.  escapeXml                                                          *)
(***************************************************************************)
\* the entity of one character
EntityOf(c) ==
  CASE c = "&" -> <<"&", "a", "m", "p", ";">>
    [] c = "<" -> <<"&", "l", "t", ";">>
    [] c = ">" -> <<"&", "g", "t", ";">>
    [] c = "\"" -> <<"&", "q", "u", "o", "t", ";">>
    [] c = "'" -> <<"&", "a", "p", "o", "s", ";">>
    [] OTHER -> <<c>>

Escaped == escRet # <<>>

\* C7: escapeXml(s) is s with each character & < > " ' replaced by its entity and
\* every other character kept; the & of an inserted entity is not escaped again.
C7_EachCharacterEscapedOnce ==
  Escaped => escRet[1] = Flatten([i \in DOMAIN escArg |-> EntityOf(escArg[i])])

\* a string with an ampersand and another reserved character has been escaped
C7_Witness ==
  /\ Escaped
  /\ "&" \in Range(escArg)
  /\ Range(escArg) \cap {"<", ">", "\"", "'"} # {}

(***************************************************************************)
(* C8.  Placeholders whose identifier is a key of the bag.                 *)
(***************************************************************************)
\* what C8 says of one piece of the template: a placeholder of a key of the bag
\* becomes the JSON text of the value, a character stays, and a placeholder of a
\* missing key is left open (any: TRUE)
PieceRule(piece, values) ==
  IF ~IsToken(piece) THEN [any |-> FALSE, text |-> piece]
  ELSE IF TokenIdentifier(piece) \in OwnKeys(values)
  THEN [any |-> FALSE, text |-> JSONstringify(GetProperty(values, TokenIdentifier(piece)))]
  ELSE [any |-> TRUE, text |-> <<>>]

\* text is the concatenation of what the rules allow, in order
RECURSIVE FollowsRules(_, _)
FollowsRules(text, rules) ==
  IF rules = <<>> THEN text = <<>>
  ELSE IF Head(rules).any
  THEN \E n \in 0..Len(text) :
         FollowsRules(SubSeq(text, n + 1, Len(text)), Tail(rules))
  ELSE /\ Len(text) >= Len(Head(rules).text)
       /\ SubSeq(text, 1, Len(Head(rules).text)) = Head(rules).text
       /\ FollowsRules(SubSeq(text, Len(Head(rules).text) + 1, Len(text)), Tail(rules))

\* C8: replaceTemplateVariables replaces every placeholder whose identifier is a key
\* of the bag by the JSON text of the bound value, inserted as it is (not escaped,
\* not searched again), and keeps all text outside placeholders; a template without
\* placeholder is returned unchanged.
C8_BoundPlaceholdersReplaced ==
  Replaced =>
    FollowsRules(tplRet[1],
                 [i \in DOMAIN tplPieces |-> PieceRule(tplPieces[i], tplValues)])

\* a template with text and a placeholder bound to a string that itself looks like
\* a bound placeholder
C8_Witness ==
  /\ Replaced
  /\ \E i \in DOMAIN tplPieces : ~IsToken(tplPieces[i])
  /\ \E i \in DOMAIN tplPieces :
       /\ IsToken(tplPieces[i])
       /\ TokenIdentifier(tplPieces[i]) \in OwnKeys(tplValues)
       /\ GetProperty(tplValues, TokenIdentifier(tplPieces[i])).t = "string"
       /\ MatchLength(GetProperty(tplValues, TokenIdentifier(tplPieces[i])).v, 1) > 0
       /\ SubSeq(GetProperty(tplValues, TokenIdentifier(tplPieces[i])).v, 3, 3)
            \in OwnKeys(tplValues)

(***************************************************************************)
(* C9.  The examples section.                                              *)
(***************************************************************************)
ExampleTagOpenA == <<"<", "e", "x", "a", "m", "p", "l", "e", " ", "i", "n", "d", "e", "x", "=", "\"">>
ExampleTagOpenB == <<"\"", ">", "<", "i", "n", "p", "u", "t", ">">>

\* the i-th example (from 0) as C9 renders it
ExpectedExample(ex, i) ==
  ExampleTagOpenA \o NumberToString(i) \o ExampleTagOpenB
  \o objectToXml(ex.input, <<>>)
  \o ExampleMid
  \o JSONstringify(ex.output)
  \o ExampleClose

\* the text of the examples section of a result, from <examples> to </examples>
ExamplesText(result) ==
  SubSeq(result, IndexOf(result, ExamplesTagOpen),
         IndexOf(result, ExamplesTagClose) + Len(ExamplesTagClose) - 1)

\* C9: the examples section holds, in the order of the example() calls, one line per
\* example: <example index="i"><input> objectToXml(input) </input><output>
\* JSON.stringify(output) </output></example>, whatever the value bag is.
C9_ExamplesRendered ==
  (Called /\ Len(CalledBuilder._examples) >= 1) =>
    ExamplesText(lastCall[1].result) =
      ExamplesTagOpen
      \o Flatten([i \in DOMAIN CalledBuilder._examples |->
                   <<"\n">> \o ExpectedExample(CalledBuilder._examples[i], i - 1)])
      \o <<"\n">> \o ExamplesTagClose

\* a call, with a bag that is not empty, of a function built with two different
\* examples
C9_Witness ==
  /\ Called
  /\ lastCall[1].values # EmptyObject
  /\ Len(CalledBuilder._examples) >= 2
  /\ CalledBuilder._examples[1] # CalledBuilder._examples[2]

(***************************************************************************)
(* C10.  objectToXml without metadata.                                     *)
(***************************************************************************)
ElementOf(prop) ==
  <<"<">> \o prop[1] \o <<">">> \o objectToXml(prop[2], <<>>)
  \o <<"<", "/">> \o prop[1] \o <<">">>

\* what C10 says objectToXml(value) is, the properties of a mapping taken in the
\* order props; it says nothing of an array that is not empty
ExpectedXml(value, props, actual) ==
  CASE value.t = "string" -> escapeXml(value.v)
    [] value.t = "number" -> NumberToString(value.v)
    [] value.t = "boolean" -> (IF value.v THEN TrueText ELSE FalseText)
    [] value.t \in {"null", "undefined"} -> <<>>
    [] value.t = "array" -> (IF value.v = <<>> THEN <<>> ELSE actual)
    [] value.t = "object" -> Flatten([i \in DOMAIN props |-> ElementOf(props[i])])

\* the place of property j of props in the order of Object.entries: among the
\* array-index keys by numeric value, before every other key; among the other
\* keys by creation
EntriesRank(props, j) ==
  LET indexProps == {m \in DOMAIN props : IsArrayIndex(props[m][1])}
  IN  IF j \in indexProps
      THEN 1 + Cardinality({m \in indexProps :
                 ArrayIndexValue(props[m][1]) < ArrayIndexValue(props[j][1])})
      ELSE Cardinality(indexProps)
           + Cardinality({m \in 1..j : m \notin indexProps})

InEntriesOrder(props) ==
  [r \in DOMAIN props |-> props[CHOOSE j \in DOMAIN props : EntriesRank(props, j) = r]]

\* C10 as claimed: the keys of a mapping are taken in insertion order.
C10_InsertionOrder ==
  (Serialized /\ xmlMeta = <<>>) =>
    xmlRet[1] = ExpectedXml(xmlArg, xmlArg.v, xmlRet[1])

\* C10 as amended: objectToXml without metadata yields the escapeXml form of a
\* string, the literal text of a number or boolean, the empty string for null,
\* undefined, [] and {}, and for a mapping the concatenation of <key> objectToXml(
\* value) </key> over its keys in the order of Object.entries: the keys that are
\* array indices first, in ascending numeric order, then the others as inserted.
C10_EntriesOrder ==
  (Serialized /\ xmlMeta = <<>>) =>
    xmlRet[1] = ExpectedXml(xmlArg, InEntriesOrder(xmlArg.v), xmlRet[1])

\* a mapping whose first inserted key is a name with a null value and whose
\* second is an array index with a string value
C10_Witness ==
  /\ Serialized
  /\ xmlMeta = <<>>
  /\ xmlArg.t = "object"
  /\ Len(xmlArg.v) = 2
  /\ ~IsArrayIndex(xmlArg.v[1][1])
  /\ xmlArg.v[1][2].t = "null"
  /\ IsArrayIndex(xmlArg.v[2][1])
  /\ xmlArg.v[2][2].t = "string"

(***************************************************************************)
(* The calls a builder was chained from, and the configuration they        *)
(* describe.                                                               *)
(***************************************************************************)
RECURSIVE Chain(_)
\* the instruction, example and taskKey calls that lead from promptBuilder()
\* to builders[i], in call order
Chain(i) ==
  IF receiver[i] = 0 THEN <<>> ELSE Append(Chain(receiver[i]), made[i])

IsInstructionCall(c) == c.method = "instruction"

IsExampleCall(c) == c.method = "example"

IsTaskKeyCall(c) == c.method = "taskKey"

\* the template of the last instruction call, the empty string without one
LastTemplate(calls) ==
  LET given == SelectSeq(calls, IsInstructionCall)
  IN  IF given = <<>> THEN <<>> ELSE given[Len(given)].args[1]

\* the pairs given to the example calls, in call order
GivenExamples(calls) ==
  LET given == SelectSeq(calls, IsExampleCall)
  IN  [k \in DOMAIN given |-> [input |-> given[k].args[1], output |-> given[k].args[2]]]

\* the names given to the taskKey calls, in call order
GivenTaskKeys(calls) ==
  LET given == SelectSeq(calls, IsTaskKeyCall)
  IN  [k \in DOMAIN given |-> given[k].args[1]]

\* C11: whatever the order of the instruction, example and taskKey calls
\* chained from promptBuilder(), the resulting builder holds the template of
\* the last instruction call (the empty string if there was none), the pairs
\* of the example calls in call order and the names of the taskKey calls in
\* call order; an instruction call after example or taskKey calls loses none.
C11_ConfigurationIsTheChain ==
  \A i \in DOMAIN builders :
    /\ builders[i]._instruction = LastTemplate(Chain(i))
    /\ builders[i]._examples = GivenExamples(Chain(i))
    /\ builders[i]._taskKeys = GivenTaskKeys(Chain(i))

\* an instruction call was made on a builder that already had an example or
\* a task key
C11_Witness ==
  \E i \in DOMAIN builders :
    /\ made[i].method = "instruction"
    /\ receiver[i] # 0
    /\ made[receiver[i]].method \in {"example", "taskKey"}
    /\ Len(builders[i]._examples) + Len(builders[i]._taskKeys) > 0

(***************************************************************************)
(* The shape of the value objectToXml is called on: whether an array or a  *)
(* mapping of it reaches itself, how deep it nests, and the value as a     *)
(* tree when none does.                                                    *)
(***************************************************************************)
RefsOf(obj) ==
  IF obj.t = "array" THEN { obj.v[i] : i \in DOMAIN obj.v }
  ELSE IF obj.t = "object" THEN { obj.v[i][2] : i \in DOMAIN obj.v }
  ELSE {}

RECURSIVE Below(_, _)
\* refs and everything reached from them in at most k reference steps
Below(refs, k) ==
  IF k = 0 THEN refs
  ELSE Below(refs \cup UNION { RefsOf(objects[r]) : r \in refs }, k - 1)

\* the objects reached from the object at ref through one reference or more
Descendants(ref) == Below(RefsOf(objects[ref]), HeapSize)

\* the argument (object 1) holds an array or a mapping that reaches itself
Cyclic == \E r \in {1} \cup Descendants(1) : r \in Descendants(r)

RECURSIVE Depth(_)
\* the calls of objectToXml nested at most when the value at ref is acyclic
Depth(ref) ==
  LET below == { Depth(r) : r \in RefsOf(objects[ref]) }
  IN  1 + (IF below = {} THEN 0 ELSE CHOOSE d \in below : \A e \in below : e <= d)

RECURSIVE Unfold(_)
\* the acyclic value at ref, references replaced by what they refer to
Unfold(ref) ==
  LET obj == objects[ref]
  IN  IF obj.t = "array" THEN ArrayValue([i \in DOMAIN obj.v |-> Unfold(obj.v[i])])
      ELSE IF obj.t = "object"
      THEN ObjectValue([i \in DOMAIN obj.v |-> <<obj.v[i][1], Unfold(obj.v[i][2])>>])
      ELSE obj

Started == stack # <<>> \/ walkRet # <<>> \/ thrown

Returned == walkRet # <<>>

WalkReturnsObjectToXml ==
  Returned => /\ ~Cyclic
              /\ ~thrown
              /\ walkRet[1] = objectToXml(Unfold(1), <<>>)

WalkThrowsOnlyWhenTooDeep ==
  thrown => (Cyclic \/ Depth(1) > StackCapacity)

WalkEnds ==
  /\ (Started /\ (Cyclic \/ Depth(1) > StackCapacity)) ~> thrown
  /\ (Started /\ ~Cyclic /\ Depth(1) <= StackCapacity) ~> Returned

====
